---- MODULE Spec2Model ----
(***************************************************************************)
(* Content-addressed files on an S3-like blob store (flechasdb-s3).        *)
(*                                                                         *)
(*   src/src/syncfs.rs   blocking facade: S3FileSystem, S3HashedFileOut    *)
(*                       (the writer), S3HashedFileIn (the buffered reader)*)
(*   src/src/asyncfs.rs  cooperative facade: S3FileSystem, S3HashedFileIn  *)
(*                       (the streaming reader, an AsyncRead)              *)
(*                                                                         *)
(* The blob store, the scratch file, the SHA-256 implementation and the    *)
(* caller are the environment: their outcomes are chosen with \E.          *)
(***************************************************************************)
EXTENDS Integers, Sequences, FiniteSets, TLC

(***************************************************************************)
(* Bounds of the model.                                                    *)
(***************************************************************************)
\* largest number of bytes offered to one writer over its life
MaxLen == 2
\* largest caller buffer handed to read / poll_read
MaxBuf == 2

\* the byte values the callers write
Bytes == {0, 1}

\* the byte sequences of length 0..n
ByteSeqs(n) == UNION {[1..k -> Bytes] : k \in 0..n}

Min(a, b) == IF a < b THEN a ELSE b

\* s without its first n elements (&s[n..])
Drop(s, n) == SubSeq(s, n + 1, Len(s))

\* the first n elements of s (&s[..n])
Take(s, n) == SubSeq(s, 1, n)

(***************************************************************************)
(* ring::digest::Context over SHA256.  The compression function is not     *)
(* computed; the accumulator is a running number folded byte by byte, so   *)
(* that it is incremental (update(a); update(b) = update(a ++ b)) and      *)
(* sensitive to every byte and to their order, and finish() spreads it     *)
(* over DigestLen output bytes.                                            *)
(***************************************************************************)
\* SHA256_OUTPUT_LEN: the digest is 32 bytes
DigestLen == 32
\* modulus and multiplier of the running number (kept below 2^31)
DigestMod == 1000003
DigestMul == 131

\* ring::digest::Context::new(&SHA256)
DigestNew == 7

RECURSIVE DigestUpdate(_, _)
\* Context::update(buf)
DigestUpdate(ctx, buf) ==
    IF Len(buf) = 0 THEN ctx
    ELSE DigestUpdate((ctx * DigestMul + Head(buf) + 1) % DigestMod, Tail(buf))

\* Context::finish(): the DigestLen raw digest bytes
DigestFinish(ctx) ==
    [i \in 1..DigestLen |->
        (CASE i % 3 = 1 -> (ctx % 256) + 37 * i
           [] i % 3 = 2 -> ((ctx \div 256) % 256) + 101 * i
           [] OTHER     -> ((ctx \div 65536) % 256) + 59 * i) % 256]

\* the SHA-256 digest of a whole byte sequence
Sha256(bytes) == DigestFinish(DigestUpdate(DigestNew, bytes))

(***************************************************************************)
(* base64::engine::general_purpose::{STANDARD, URL_SAFE_NO_PAD}            *)
(***************************************************************************)
Letters ==
    << "A", "B", "C", "D", "E", "F", "G", "H", "I", "J", "K", "L", "M",
       "N", "O", "P", "Q", "R", "S", "T", "U", "V", "W", "X", "Y", "Z",
       "a", "b", "c", "d", "e", "f", "g", "h", "i", "j", "k", "l", "m",
       "n", "o", "p", "q", "r", "s", "t", "u", "v", "w", "x", "y", "z",
       "0", "1", "2", "3", "4", "5", "6", "7", "8", "9" >>

StandardAlphabet == Letters \o << "+", "/" >>
UrlSafeAlphabet == Letters \o << "-", "_" >>

RECURSIVE Base64Encode(_, _, _)
\* Engine::encode: three bytes give four symbols; a last group of one or two
\* bytes gives two or three symbols, padded with "=" when pad is set
Base64Encode(alphabet, pad, bytes) ==
    IF Len(bytes) = 0 THEN ""
    ELSE IF Len(bytes) = 1 THEN
        alphabet[bytes[1] \div 4 + 1]
        \o alphabet[(bytes[1] % 4) * 16 + 1]
        \o (IF pad THEN "==" ELSE "")
    ELSE IF Len(bytes) = 2 THEN
        alphabet[bytes[1] \div 4 + 1]
        \o alphabet[(bytes[1] % 4) * 16 + bytes[2] \div 16 + 1]
        \o alphabet[(bytes[2] % 16) * 4 + 1]
        \o (IF pad THEN "=" ELSE "")
    ELSE
        alphabet[bytes[1] \div 4 + 1]
        \o alphabet[(bytes[1] % 4) * 16 + bytes[2] \div 16 + 1]
        \o alphabet[(bytes[2] % 16) * 4 + bytes[3] \div 64 + 1]
        \o alphabet[(bytes[3] % 64) + 1]
        \o Base64Encode(alphabet, pad, Drop(bytes, 3))

\* base64_engine.encode(digest)
base64_engine(bytes) == Base64Encode(StandardAlphabet, TRUE, bytes)

\* url_safe_base64_engine.encode(digest)
url_safe_base64_engine(bytes) == Base64Encode(UrlSafeAlphabet, FALSE, bytes)

(***************************************************************************)
(* Configuration of the facades and inputs of the callers.                 *)
(***************************************************************************)
\* S3FileSystem.base_path (both facades are configured alike)
BasePath == "base"
\* the path segment given to create_hashed_file_in
SubPath == "sub"
\* the extensions given to persist
Extensions == {"bin"}

VARIABLES
    out,      \* syncfs::S3HashedFileOut, the writer, and the result of its last call
    written,  \* history of the write calls: the bytes offered so far, and
              \* whether every call was accepted in full
    puts,     \* the PutObject requests issued so far
    store,    \* the bucket: the objects it keeps, [key, checksum_sha256, body]
    fin,      \* syncfs::S3HashedFileIn, the buffered reader
    ain       \* asyncfs::S3HashedFileIn, the streaming reader

vars == << out, written, puts, store, fin, ain >>

(***************************************************************************)
(* Results handed back to the caller.                                      *)
(***************************************************************************)
\* no call has returned yet
NoRet == [call |-> "", kind |-> "none", n |-> 0, id |-> "", err |-> ""]
\* Ok(n) of write / read
OkCount(call, n) == [call |-> call, kind |-> "ok", n |-> n, id |-> "", err |-> ""]
\* Ok(id) of persist
OkId(call, id) == [call |-> call, kind |-> "ok", n |-> 0, id |-> id, err |-> ""]
\* Ok(()) of create, open, verify
OkUnit(call) == [call |-> call, kind |-> "ok", n |-> 0, id |-> "", err |-> ""]
\* Err(e)
Err(call, e) == [call |-> call, kind |-> "err", n |-> 0, id |-> "", err |-> e]
\* a panic unwinding into the caller
Panic(call, e) == [call |-> call, kind |-> "panic", n |-> 0, id |-> "", err |-> e]

(***************************************************************************)
(* The bridge from the blocking calls to the runtime.                      *)
(***************************************************************************)
\* the thread a blocking call is made from: one outside the runtime, or a
\* worker that is running a task of the runtime
Callers == {"outside", "worker"}

\* runtime_handle.block_on(future): tokio drives the future to completion for
\* a thread outside the runtime and panics for a thread that is inside one
block_on(caller) == IF caller = "worker" THEN "panic" ELSE "driven"

\* the message of that panic
EnterRuntimePanic == "Cannot start a runtime from within a runtime"

(***************************************************************************)
(* The blob store.  PutObject keeps the body and the checksum it is given; *)
(* a faulty store may instead lose the checksum, keep another checksum, or *)
(* keep other bytes.  GetObject answers with what the store kept.          *)
(***************************************************************************)
\* Option<String>
None == [some |-> FALSE, val |-> ""]
Some(v) == [some |-> TRUE, val |-> v]

Faults == {"none", "no_checksum", "bad_checksum", "bad_body"}

\* a well-formed checksum that is the digest of nothing written here
OtherChecksum == "AAAAAAAAAAAAAAAAAAAAAAAAAAAAAAAAAAAAAAAAAAA="

\* another body than the uploaded one
OtherBody(body) == IF Len(body) = 0 THEN << 0 >> ELSE Tail(body)

\* the object the store keeps for a PutObject request under a fault
StoredObject(req, fault) ==
    [key |-> req.key,
     checksum_sha256 |->
         CASE fault = "no_checksum" -> None
           [] fault = "bad_checksum" -> Some(OtherChecksum)
           [] OTHER -> Some(req.checksum),
     body |-> IF fault = "bad_body" THEN OtherBody(req.body) ELSE req.body,
     fault |-> fault]

\* GetObjectOutput for a stored object
GetObjectOutput(o) ==
    [ok |-> TRUE, checksum_sha256 |-> o.checksum_sha256, body |-> o.body,
     fault |-> o.fault]

\* SdkError: no such key, or a transport failure
GetObjectError ==
    [ok |-> FALSE, checksum_sha256 |-> None, body |-> << >>, fault |-> "error"]

\* the results get_object().send() can resolve to for a key
GetObjectResults(key) ==
    {GetObjectError} \cup {GetObjectOutput(o) : o \in {x \in store : x.key = key}}

(***************************************************************************)
(* syncfs.rs: S3HashedFileOut                                              *)
(***************************************************************************)
\* no writer exists
NoFileOut ==
    [pc |-> "none", base_path |-> "", tempfile |-> << >>, digest |-> DigestNew,
     extension |-> "", id |-> "", checksum |-> "", key |-> "", body |-> << >>,
     caller |-> "", ret |-> NoRet]

\* S3HashedFileOut::create: a scratch file and a fresh digest; tempOk is the
\* outcome of NamedTempFile::new()
create(base_path, tempOk) ==
    /\ out.pc = "none"
    /\ out' = IF tempOk
              THEN [NoFileOut EXCEPT !.pc = "open", !.base_path = base_path,
                                     !.ret = OkUnit("create")]
              ELSE [NoFileOut EXCEPT !.ret = Err("create", "io")]
    /\ UNCHANGED << written, puts, store, fin, ain >>

\* S3FileSystem::create_hashed_file
create_hashed_file(tempOk) == create(BasePath, tempOk)

\* S3FileSystem::create_hashed_file_in(path)
create_hashed_file_in(path, tempOk) == create(BasePath \o "/" \o path, tempOk)

\* a write that starts a fresh digest for every buffer
WriteDigest_Restart(ctx, buf) == DigestUpdate(DigestNew, buf)

\* the digest after write(buf): self.digest.update(buf)
WriteDigest(ctx, buf) == DigestUpdate(ctx, buf)

\* Write::write(buf): the digest is updated with buf, then the scratch file
\* takes the bytes; io is what File::write does with them: an error, or the
\* number of bytes it appended (it may be fewer than offered)
write(buf, io) ==
    /\ out.pc = "open"
    /\ Len(written.bytes) + Len(buf) <= MaxLen
    /\ LET digest == WriteDigest(out.digest, buf)
       IN IF ~io.ok
          THEN /\ out' = [out EXCEPT !.digest = digest, !.ret = Err("write", "io")]
               /\ written' = [bytes |-> written.bytes \o buf, full |-> FALSE]
          ELSE /\ out' = [out EXCEPT !.digest = digest,
                                     !.tempfile = @ \o Take(buf, io.n),
                                     !.ret = OkCount("write", io.n)]
               /\ written' = [bytes |-> written.bytes \o buf,
                              full |-> written.full /\ io.n = Len(buf)]
    /\ UNCHANGED << puts, store, fin, ain >>

\* the outcomes of File::write on a buffer of len bytes
FileWrites(len) ==
    {[ok |-> FALSE, n |-> 0]} \cup {[ok |-> TRUE, n |-> n] : n \in 0..len}

\* the id persist derives from the raw digest
PersistId(digest) == url_safe_base64_engine(digest)

\* a persist that attaches the id's encoding as the checksum
PersistChecksum_UrlSafe(digest) == url_safe_base64_engine(digest)

\* the checksum persist attaches to the upload
PersistChecksum(digest) == base64_engine(digest)

\* the key persist uploads to
PersistKey(base_path, id, extension) == base_path \o "/" \o id \o "." \o extension

\* persist, lines 136-140, called from the thread caller: flush, finish the
\* digest, derive id, checksum, key
persist_flush(extension, flushOk, caller) ==
    /\ out.pc = "open"
    /\ out' = IF ~flushOk
              THEN [out EXCEPT !.pc = "done", !.caller = caller,
                               !.ret = Err("persist", "io")]
              ELSE LET digest == DigestFinish(out.digest)
                       id == PersistId(digest)
                   IN [out EXCEPT !.pc = "from_path",
                                  !.caller = caller,
                                  !.extension = extension,
                                  !.id = id,
                                  !.checksum = PersistChecksum(digest),
                                  !.key = PersistKey(out.base_path, id, extension)]
    /\ UNCHANGED << written, puts, store, fin, ain >>

\* a persist that goes on to upload after the scratch file could not be read
persist_from_path_Continue(readOk) ==
    /\ out.pc = "from_path"
    /\ out' = IF block_on(out.caller) = "panic"
              THEN [out EXCEPT !.pc = "done",
                               !.ret = Panic("persist", EnterRuntimePanic)]
              ELSE IF ~readOk
              THEN [out EXCEPT !.pc = "put_object",
                               !.ret = Err("persist", "failed to read the temporary file")]
              ELSE [out EXCEPT !.pc = "put_object", !.body = out.tempfile]
    /\ UNCHANGED << written, puts, store, fin, ain >>

\* persist, lines 141-145: block_on(ByteStream::from_path(tempfile))
persist_from_path(readOk) ==
    /\ out.pc = "from_path"
    /\ out' = IF block_on(out.caller) = "panic"
              THEN [out EXCEPT !.pc = "done",
                               !.ret = Panic("persist", EnterRuntimePanic)]
              ELSE IF ~readOk
              THEN [out EXCEPT !.pc = "done",
                               !.ret = Err("persist", "failed to read the temporary file")]
              ELSE [out EXCEPT !.pc = "put_object", !.body = out.tempfile]
    /\ UNCHANGED << written, puts, store, fin, ain >>

\* persist, lines 146-153: put_object()...send() is driven by block_on: the
\* request goes out
persist_put_object ==
    /\ out.pc = "put_object"
    /\ puts' = Append(puts, [key |-> out.key, checksum |-> out.checksum,
                             body |-> out.body])
    /\ out' = [out EXCEPT !.pc = "block_on"]
    /\ UNCHANGED << written, store, fin, ain >>

\* what persist returns once the upload went through
PersistOk(id) == OkId("persist", id)

\* a persist that drops the error of the upload
persist_block_on_IgnoreError(putOk, fault) ==
    /\ out.pc = "block_on"
    /\ store' = IF putOk
                THEN {o \in store : o.key # out.key}
                     \cup {StoredObject(puts[Len(puts)], fault)}
                ELSE store
    /\ out' = [out EXCEPT !.pc = "done", !.ret = OkId("persist", out.id)]
    /\ UNCHANGED << written, puts, fin, ain >>

\* persist, lines 152-157: the upload completes or fails; fault is what the
\* store does with an upload that went through
persist_block_on(putOk, fault) ==
    /\ out.pc = "block_on"
    /\ IF putOk
       THEN /\ store' = {o \in store : o.key # out.key}
                        \cup {StoredObject(puts[Len(puts)], fault)}
            /\ out' = [out EXCEPT !.pc = "done", !.ret = PersistOk(out.id)]
       ELSE /\ store' = store
            /\ out' = [out EXCEPT !.pc = "done",
                         !.ret = Err("persist", "failed to upload the content to S3")]
    /\ UNCHANGED << written, puts, fin, ain >>

\* the paths a caller opens: those derived from the id of the content, which
\* persist returns and which a caller that knows the content can derive while
\* persist is still under way
CallerPaths ==
    IF out.id # ""
    THEN {out.id \o "." \o out.extension,
          SubPath \o "/" \o out.id \o "." \o out.extension}
    ELSE {}

(***************************************************************************)
(* syncfs.rs: S3HashedFileIn, the buffered reader                          *)
(***************************************************************************)
\* no reader exists; buf is the caller's buffer as the last read left it
NoFileIn ==
    [pc |-> "none", key |-> "", body |-> << >>, read_pos |-> 0, checksum |-> "",
     digest |-> DigestNew, delivered |-> << >>, eof |-> FALSE, fault |-> "",
     buf |-> << >>, caller |-> "", ret |-> NoRet]

\* S3HashedFileIn::open, reached through S3FileSystem::open_hashed_file(path),
\* lines 181-187: the request is built and the thread caller enters
\* block_on(res); a thread outside the runtime is parked there
open_send(path, caller) ==
    /\ fin.pc = "none"
    /\ LET key == BasePath \o "/" \o path
           new == [NoFileIn EXCEPT !.key = key, !.caller = caller]
       IN fin' = IF block_on(caller) = "panic"
                 THEN [new EXCEPT !.ret = Panic("open", EnterRuntimePanic)]
                 ELSE [new EXCEPT !.pc = "get_object"]
    /\ UNCHANGED << out, written, puts, store, ain >>

\* open, lines 186-194: the request is answered with res, read from the store
\* as it is then; without a checksum open fails, with one it goes on to
\* block_on(res.body.collect()) and is parked again
open_block_on(res) ==
    /\ fin.pc = "get_object"
    /\ res \in GetObjectResults(fin.key)
    /\ LET new == [NoFileIn EXCEPT !.key = fin.key, !.caller = fin.caller,
                                   !.fault = res.fault]
       IN fin' =
            IF ~res.ok
            THEN [new EXCEPT
                    !.ret = Err("open", "failed to request the content from S3")]
            ELSE IF ~res.checksum_sha256.some
            THEN [new EXCEPT
                    !.ret = Err("open", "no checksum for the content from S3")]
            ELSE [new EXCEPT !.pc = "collect",
                             !.body = res.body,
                             !.checksum = res.checksum_sha256.val]
    /\ UNCHANGED << out, written, puts, store, ain >>

\* open, lines 195-206: the body is collected, or fails to be; collected, the
\* reader is made with its cursor at 0 and a fresh digest
open_collect(collectOk) ==
    /\ fin.pc = "collect"
    /\ fin' = IF ~collectOk
              THEN [NoFileIn EXCEPT !.key = fin.key, !.caller = fin.caller,
                      !.fault = fin.fault,
                      !.ret = Err("open", "failed to read the content from S3")]
              ELSE [fin EXCEPT !.pc = "open",
                               !.read_pos = 0,
                               !.digest = DigestNew,
                               !.ret = OkUnit("open")]
    /\ UNCHANGED << out, written, puts, store, ain >>

\* <&[u8] as Read>::read: the number of bytes copied into a buffer of len bytes
SliceRead(stream, len) == Min(len, Len(stream))

\* a read that folds the whole buffer of the caller
ReadDigested_WholeBuf(buf, n) == buf

\* the bytes read folds into the digest: &buf[..n]
ReadDigested(buf, n) == Take(buf, n)

\* Read::read(buf) with a caller buffer of len bytes
read(len) ==
    /\ fin.pc = "open"
    /\ LET stream == Drop(fin.body, fin.read_pos)
           n == SliceRead(stream, len)
           buf == Take(stream, n) \o [i \in 1..(len - n) |-> 0]
       IN fin' = [fin EXCEPT !.read_pos = @ + n,
                             !.digest = DigestUpdate(@, ReadDigested(buf, n)),
                             !.delivered = @ \o Take(buf, n),
                             !.eof = @ \/ (n = 0 /\ len > 0),
                             !.buf = buf,
                             !.ret = OkCount("read", n)]
    /\ UNCHANGED << out, written, puts, store, ain >>

\* a verify that compares nothing
VerifyMatches_Always(computed, recorded) == TRUE

\* the comparison verify makes between the computed and the recorded checksum
VerifyMatches(computed, recorded) == computed = recorded

\* a verify that first folds the part of the body no read has taken
verify_Drain ==
    /\ fin.pc = "open"
    /\ LET digest == DigestUpdate(fin.digest, Drop(fin.body, fin.read_pos))
           checksum == base64_engine(DigestFinish(digest))
       IN fin' = [fin EXCEPT !.pc = "verified",
                    !.buf = << >>,
                    !.ret = IF VerifyMatches(checksum, fin.checksum)
                            THEN OkUnit("verify")
                            ELSE Err("verify", "VerificationFailure")]
    /\ UNCHANGED << out, written, puts, store, ain >>

\* HashedFileIn::verify (consumes the reader)
verify ==
    /\ fin.pc = "open"
    /\ LET checksum == base64_engine(DigestFinish(fin.digest))
       IN fin' = [fin EXCEPT !.pc = "verified",
                    !.buf = << >>,
                    !.ret = IF VerifyMatches(checksum, fin.checksum)
                            THEN OkUnit("verify")
                            ELSE Err("verify", "VerificationFailure")]
    /\ UNCHANGED << out, written, puts, store, ain >>

(***************************************************************************)
(* asyncfs.rs: S3HashedFileIn, the streaming reader                        *)
(***************************************************************************)
\* Poll::Pending handed back to the caller
Pending(call) == [call |-> call, kind |-> "pending", n |-> 0, id |-> "", err |-> ""]

\* Option<StreamReader<ByteStream, Bytes>>: rest is what the body has not yet
\* handed over
NoBody == [some |-> FALSE, rest |-> << >>]
StreamReader(body) == [some |-> TRUE, rest |-> body]

\* what one poll_read polled: the fetch future and the body, each "none" when
\* the call did not poll it, and last_pos, the length of buf.filled() the call
\* took before it polled the body (line 124)
NoPolls == [get_object |-> "none", body |-> "none", last_pos |-> 0]

\* no reader exists
NoAsyncFileIn ==
    [pc |-> "none", key |-> "", digest |-> DigestNew, get_object |-> "new",
     checksum |-> None, body |-> NoBody,
     full |-> << >>, delivered |-> << >>, eof |-> FALSE, fault |-> "",
     polled |-> NoPolls, ret |-> NoRet]

\* S3HashedFileIn::open, reached through S3FileSystem::open_hashed_file(path):
\* the request is built, nothing is awaited
async_open(path) ==
    /\ ain.pc = "none"
    /\ ain' = [NoAsyncFileIn EXCEPT !.pc = "open",
                                    !.key = BasePath \o "/" \o path,
                                    !.digest = DigestNew,
                                    !.get_object = "new",
                                    !.checksum = None,
                                    !.body = NoBody,
                                    !.ret = OkUnit("open")]
    /\ UNCHANGED << out, written, puts, store, fin >>

\* the outcomes of polling the fetch future of a key
GetObjectPolls(key) ==
    {[kind |-> "pending", res |-> GetObjectError]}
    \cup {[kind |-> "ready", res |-> r] : r \in GetObjectResults(key)}

\* the outcomes of StreamReader::poll_read on a buffer with cap bytes left:
\* n is the number of bytes it puts into the buffer
BodyPolls(rest, cap) ==
    IF cap = 0 THEN {[kind |-> "ready", n |-> 0]}
    ELSE {[kind |-> "pending", n |-> 0], [kind |-> "err", n |-> 0]}
         \cup (IF Len(rest) = 0 THEN {[kind |-> "ready", n |-> 0]}
               ELSE {[kind |-> "ready", n |-> n] : n \in 1..Min(cap, Len(rest))})

\* a poll that folds everything the buffer holds
PollDigested_Whole(filled, last_pos) == filled

\* a poll that folds the head of the buffer, as many bytes as were added
PollDigested_Head(filled, last_pos) == Take(filled, Len(filled) - last_pos)

\* the bytes poll_read folds into the digest: &buf.filled()[last_pos..]
PollDigested(filled, last_pos) == Drop(filled, last_pos)

\* a reader that drops a failed body to fetch the object again
StreamingError_Refetch(r) ==
    [r EXCEPT !.body = NoBody,
              !.get_object = "new",
              !.polled = [@ EXCEPT !.body = "err"],
              !.ret = Err("poll_read", "body")]

\* a reader that starts its digest over when the body fails
StreamingError_ResetDigest(r) ==
    [r EXCEPT !.digest = DigestNew,
              !.polled = [@ EXCEPT !.body = "err"],
              !.ret = Err("poll_read", "body")]

\* poll_read, line 134: an error of the body is handed on as it is
StreamingError(r) ==
    [r EXCEPT !.polled = [@ EXCEPT !.body = "err"],
              !.ret = Err("poll_read", "body")]

\* poll_read, lines 122-135: the reader r polls its body with a buffer already
\* holding pre and cap bytes left; bp is the outcome of the body's poll
Streaming(r, pre, cap, bp) ==
    LET last_pos == Len(pre)
        filled == pre \o Take(r.body.rest, bp.n)
    IN CASE bp.kind = "ready" ->
              [r EXCEPT !.digest = IF Len(filled) > last_pos
                                   THEN DigestUpdate(@, PollDigested(filled, last_pos))
                                   ELSE @,
                        !.body = StreamReader(Drop(r.body.rest, bp.n)),
                        !.delivered = @ \o Take(r.body.rest, bp.n),
                        !.eof = @ \/ (bp.n = 0 /\ cap > 0),
                        !.polled = [@ EXCEPT !.body = "ready", !.last_pos = last_pos],
                        !.ret = OkCount("poll_read", bp.n)]
         [] bp.kind = "pending" ->
              [r EXCEPT !.polled = [@ EXCEPT !.body = "pending"],
                        !.ret = Pending("poll_read")]
         [] OTHER -> StreamingError(r)

\* a start of the stream that does not look at the checksum
ChecksumPresent_Unchecked(res) == TRUE

\* res.checksum_sha256.is_some()
ChecksumPresent(res) == res.checksum_sha256.some

\* a start of the stream that returns not-ready once the body is stored
LoopAgain_ReturnPending == Pending("poll_read")

\* poll_read, lines 121 and 139-143: with checksum and body stored nothing is
\* returned, the loop goes round
LoopAgain == NoRet

\* poll_read, lines 137-158: the reader r polls the fetch future; fp is the
\* outcome.  The result is the reader after the branch, with ret = NoRet when
\* the loop goes round again
AwaitingResponse(r, fp) ==
    IF r.get_object = "done"
    THEN [r EXCEPT !.pc = "panicked",
                   !.polled = [@ EXCEPT !.get_object = "completed"],
                   !.ret = Panic("poll_read", "future polled after completion")]
    ELSE IF fp.kind = "pending"
    THEN [r EXCEPT !.get_object = "inflight",
                   !.polled = [@ EXCEPT !.get_object = "pending"],
                   !.ret = Pending("poll_read")]
    ELSE IF ~fp.res.ok
    THEN [r EXCEPT !.get_object = "done",
                   !.fault = fp.res.fault,
                   !.polled = [@ EXCEPT !.get_object = "err"],
                   !.ret = Err("poll_read", "SdkError")]
    ELSE IF ChecksumPresent(fp.res)
    THEN [r EXCEPT !.get_object = "done",
                   !.checksum = fp.res.checksum_sha256,
                   !.body = StreamReader(fp.res.body),
                   !.full = fp.res.body,
                   !.fault = fp.res.fault,
                   !.polled = [@ EXCEPT !.get_object = "ok"],
                   !.ret = LoopAgain]
    ELSE [r EXCEPT !.get_object = "done",
                   !.fault = fp.res.fault,
                   !.polled = [@ EXCEPT !.get_object = "ok"],
                   !.ret = Err("poll_read", "no checksum for the S3 object")]

\* the buffers a caller hands to poll_read already hold one of these
Prefilled == {<< >>, << 0 >>}

\* AsyncRead::poll_read(cx, buf): buf already holds pre and has cap bytes left.
\* One call runs the loop: with no body yet it polls the fetch future and, on
\* a response with a checksum, goes round and polls the body
poll_read(pre, cap) ==
    /\ ain.pc = "open"
    /\ LET r0 == [ain EXCEPT !.polled = NoPolls, !.ret = NoRet]
       IN \E fp \in (IF r0.body.some THEN {[kind |-> "pending", res |-> GetObjectError]}
                     ELSE GetObjectPolls(r0.key)) :
            LET r1 == IF r0.body.some THEN r0 ELSE AwaitingResponse(r0, fp)
            IN IF r1.ret = NoRet
               THEN \E bp \in BodyPolls(r1.body.rest, cap) :
                        ain' = Streaming(r1, pre, cap, bp)
               ELSE ain' = r1
    /\ UNCHANGED << out, written, puts, store, fin >>

\* the operation the last poll_read polled last returned Poll::Pending: it
\* has kept the waker of cx and wakes the task of the caller
WakeRegistered ==
    \/ ain.polled.body = "pending"
    \/ ain.polled.body = "none" /\ ain.polled.get_object = "pending"

\* the caller polls again at once after Poll::Ready; after Poll::Pending its
\* task runs again when the waker of cx is woken
Runnable == ain.ret # Pending("poll_read") \/ WakeRegistered

\* a verify that passes a reader holding no checksum
AsyncVerifyMatches_Lenient(computed, recorded) ==
    ~recorded.some \/ computed = recorded.val

\* the comparison the streaming verify makes: Some(&checksum) == self.checksum.as_ref()
AsyncVerifyMatches(computed, recorded) == recorded.some /\ computed = recorded.val

\* HashedFileIn::verify (consumes the reader)
async_verify ==
    /\ ain.pc = "open"
    /\ LET checksum == base64_engine(DigestFinish(ain.digest))
       IN ain' = [ain EXCEPT !.pc = "verified",
                    !.polled = NoPolls,
                    !.ret = IF AsyncVerifyMatches(checksum, ain.checksum)
                            THEN OkUnit("verify")
                            ELSE Err("verify", "VerificationFailure")]
    /\ UNCHANGED << out, written, puts, store, fin >>

(***************************************************************************)
(* The system: one writer, one buffered reader and one streaming reader    *)
(* over one bucket.                                                        *)
(***************************************************************************)
Init ==
    /\ out = NoFileOut
    /\ written = [bytes |-> << >>, full |-> TRUE]
    /\ puts = << >>
    /\ store = {}
    /\ fin = NoFileIn
    /\ ain = NoAsyncFileIn

\* the calls on the writer
WriterNext ==
    \/ \E tempOk \in BOOLEAN : create_hashed_file(tempOk)
    \/ \E tempOk \in BOOLEAN : create_hashed_file_in(SubPath, tempOk)
    \/ \E buf \in ByteSeqs(MaxLen) : \E io \in FileWrites(Len(buf)) : write(buf, io)
    \/ \E extension \in Extensions : \E flushOk \in BOOLEAN :
           \E caller \in Callers : persist_flush(extension, flushOk, caller)
    \/ \E readOk \in BOOLEAN : persist_from_path(readOk)
    \/ persist_put_object
    \/ \E putOk \in BOOLEAN : \E fault \in Faults : persist_block_on(putOk, fault)

\* the calls on the buffered reader
BufferedNext ==
    \/ \E path \in CallerPaths : \E caller \in Callers : open_send(path, caller)
    \/ \E res \in GetObjectResults(fin.key) : open_block_on(res)
    \/ \E collectOk \in BOOLEAN : open_collect(collectOk)
    \/ \E len \in 0..MaxBuf : read(len)
    \/ verify

\* the calls on the streaming reader
StreamingNext ==
    \/ \E path \in CallerPaths : async_open(path)
    \/ Runnable /\ \E pre \in Prefilled : \E cap \in 0..MaxBuf : poll_read(pre, cap)
    \/ async_verify

Next == WriterNext \/ BufferedNext \/ StreamingNext

Spec == Init /\ [][Next]_vars

\* a poll of a runnable reader, with room in the buffer, in which the
\* operation polled is ready
PollReady ==
    /\ Runnable
    /\ \E pre \in Prefilled : \E cap \in 1..MaxBuf : poll_read(pre, cap)
    /\ ain'.ret # Pending("poll_read")

\* the writer and the streaming reader alone: the buffered reader shares no
\* state with them
LiveNext == WriterNext \/ StreamingNext

\* the fetch resolves and the body hands over its bytes in the end, and the
\* caller polls whenever it is woken
LiveSpec == Init /\ [][LiveNext]_vars /\ WF_vars(PollReady)

(***************************************************************************)
(* Properties.                                                             *)
(***************************************************************************)
\* persist returned Ok(id) to the caller
Persisted == out.ret.call = "persist" /\ out.ret.kind = "ok"

\* the path a caller derives from the returned id: id.E for a writer made by
\* create_hashed_file, P/id.E for one made by create_hashed_file_in(P)
DerivedPath ==
    IF out.base_path = BasePath
    THEN out.ret.id \o "." \o out.extension
    ELSE SubPath \o "/" \o out.ret.id \o "." \o out.extension

\* the buffered reader has the object behind the returned id, kept unchanged
\* by the store, and has read it until read returned 0 on a non-empty buffer
RoundTripRead ==
    /\ Persisted
    /\ written.full
    /\ fin.key = BasePath \o "/" \o DerivedPath
    /\ fin.fault = "none"
    /\ fin.eof

\* C1: round trip. When the bytes B were written in write calls that were each
\* accepted in full (any split, also no call at all), persist returned an id,
\* the store kept body and checksum unchanged, and the buffered reader opened
\* the path derived from the id and read until read returned 0, then the bytes
\* read are exactly B and verify returns Ok.
C1_RoundTrip ==
    RoundTripRead =>
        /\ fin.delivered = written.bytes
        /\ fin.pc = "verified" => fin.ret = OkUnit("verify")

\* C1 witness: a two-byte body written under the sub-path, read back, verified
C1_Witness ==
    /\ RoundTripRead
    /\ out.base_path # BasePath
    /\ Len(written.bytes) = 2
    /\ fin.pc = "verified"
    /\ fin.ret = OkUnit("verify")

\* the request of the i-th upload addresses its own body
PutAddressesContent(i) ==
    LET digest == Sha256(puts[i].body)
        id == url_safe_base64_engine(digest)
    IN /\ puts[i].key = out.base_path \o "/" \o id \o "." \o out.extension
       /\ puts[i].checksum = base64_engine(digest)
       /\ Persisted => out.ret.id = id

\* C2: content addressing of every upload. Every Put issued by persist has the
\* key base/id.extension, where id is the URL-safe unpadded Base64 of the
\* SHA-256 of exactly the body the Put carries, its checksum is the standard
\* Base64 of the same digest, and the id returned to the caller is that id.
C2_ContentAddressing == \A i \in 1..Len(puts) : PutAddressesContent(i)

\* the digest accumulator holds exactly the bytes of the scratch file
DigestMatchesScratch ==
    out.pc = "open" => out.digest = DigestUpdate(DigestNew, out.tempfile)

\* a write call that returns Ok(n) appended n bytes and digested n bytes (a
\* step from an open writer to an open writer is a write call; the bytes it
\* was offered are those that written grows by, and they are all digested)
WriteReturnsAccepted ==
    (out.pc = "open" /\ out'.pc = "open" /\ out'.ret.kind = "ok") =>
        /\ out'.ret.n = Len(out'.tempfile) - Len(out.tempfile)
        /\ out'.ret.n = Len(written'.bytes) - Len(written.bytes)

\* C3: writer invariant. After any sequence of write calls, short and failed
\* ones included, the digest accumulator holds exactly the bytes that landed
\* in the scratch file, and a successful write returns the number of bytes
\* both appended and digested.
C3_WriterInvariant == []DigestMatchesScratch /\ [][WriteReturnsAccepted]_vars

\* the buffered reader read its body to the end and was verified
BufferedDone == fin.pc = "verified" /\ fin.eof

\* the streaming reader was polled to the end of its body and was verified
StreamingDone == ain.pc = "verified" /\ ain.eof

VerificationFailure == Err("verify", "VerificationFailure")

\* C4: tamper detection. When the checksum the store reported differs from the
\* standard Base64 SHA-256 of the bytes it delivered, verify after a complete
\* read returns a verification failure, for the buffered reader and for the
\* streaming reader, whatever the buffers of the reads and polls were.
C4_TamperDetection ==
    /\ (BufferedDone /\ fin.checksum # base64_engine(Sha256(fin.body)))
           => fin.ret = VerificationFailure
    /\ (StreamingDone /\ ain.checksum.val # base64_engine(Sha256(ain.full)))
           => ain.ret = VerificationFailure

\* C4 witness: both readers read a tampered object to the end; verify failed
C4_Witness ==
    /\ BufferedDone /\ fin.fault = "bad_checksum" /\ Len(fin.body) = 2
    /\ fin.ret = VerificationFailure
    /\ StreamingDone /\ ain.fault = "bad_checksum" /\ Len(ain.delivered) = 2
    /\ ain.ret = VerificationFailure

\* C5: missing-checksum rejection. When the response carries no checksum, the
\* buffered open returns an error and no reader, the streaming poll that sees
\* the response returns an error, and in both variants no body byte reaches
\* the caller and the reader never gets to serve the body.
C5_MissingChecksum ==
    /\ fin.fault = "no_checksum" =>
           /\ fin.pc = "none"
           /\ fin.ret.kind = "err"
           /\ fin.delivered = << >>
    /\ ain.fault = "no_checksum" =>
           /\ ~ain.body.some
           /\ ain.delivered = << >>
           /\ ain.polled.get_object = "ok" => ain.ret.kind = "err"

\* C5 witness: both readers met a response without a checksum
C5_Witness ==
    /\ fin.fault = "no_checksum" /\ fin.ret.call = "open"
    /\ ain.fault = "no_checksum" /\ ain.polled.get_object = "ok"
    /\ ain.ret = Err("poll_read", "no checksum for the S3 object")

\* C6: streaming equivalence. For the same stored object, the buffered reader
\* read to the end and the streaming reader polled to the end deliver the same
\* bytes and get the same outcome from verify, whatever the buffer sizes and
\* the not-ready polls were.
C6_StreamingEquivalence ==
    (BufferedDone /\ StreamingDone /\ fin.key = ain.key) =>
        /\ fin.delivered = ain.delivered
        /\ fin.ret = ain.ret

\* C6 witness: both readers finished the same two-byte object, verify passing
C6_Witness ==
    /\ BufferedDone /\ StreamingDone /\ fin.key = ain.key
    /\ Len(ain.delivered) = 2
    /\ ain.ret = OkUnit("verify")

\* C7: determinism. However the bytes B are split into write calls accepted in
\* full, persist derives the id of B and targets the key of B.
C7_Determinism ==
    (written.full /\ out.pc \in {"from_path", "put_object", "block_on", "done"}
                  /\ out.id # "") =>
        /\ out.id = url_safe_base64_engine(Sha256(written.bytes))
        /\ out.key = out.base_path \o "/" \o out.id \o "." \o out.extension
        /\ Persisted => out.ret.id = out.id

\* C7 witness: persist returned the id of a two-byte body
C7_Witness ==
    /\ written.full /\ Len(written.bytes) = 2 /\ Persisted
    /\ out.ret.id = url_safe_base64_engine(Sha256(written.bytes))

\* the upload of the writer's key is in the bucket
Uploaded == \E o \in store : o.key = out.key

\* what holds of the uploads in every state of a writer's life
UploadsInOrder ==
    /\ Len(puts) <= 1
    /\ out.pc \in {"none", "open"} => puts = << >> /\ store = {}
    /\ out.pc \in {"from_path", "put_object"} => puts = << >>
    /\ puts # << >> =>
           /\ out.pc \in {"block_on", "done"}
           /\ puts[1] = [key |-> out.key, checksum |-> out.checksum,
                         body |-> out.tempfile]
           /\ out.checksum = base64_engine(DigestFinish(out.digest))
    /\ (out.ret = Err("persist", "io")
        \/ out.ret = Err("persist", "failed to read the temporary file"))
           => puts = << >>

\* a step that issues a Put is taken by persist, after the flush, the
\* finalisation of the digest and the reading of the scratch file
PutAfterFlush ==
    puts' # puts =>
        /\ out.pc = "put_object"
        /\ out.id = url_safe_base64_engine(DigestFinish(out.digest))
        /\ out.body = out.tempfile
        /\ Len(puts') = Len(puts) + 1

\* C8: upload discipline. Over the life of a writer, create and write issue no
\* store operation; persist issues at most one Put, only after the flush and
\* the finalisation of the digest; when the flush or the reading of the
\* scratch file fails, no Put is issued.
C8_UploadDiscipline == [][PutAfterFlush]_vars /\ []UploadsInOrder

\* C8 witness: persist gave up on the scratch file after write calls; no Put
C8_Witness ==
    /\ out.pc = "done"
    /\ out.ret = Err("persist", "failed to read the temporary file")
    /\ Len(out.tempfile) = 2
    /\ puts = << >>

\* C9: outcome of persist. persist returns an id only once its Put completed
\* successfully; when the Put or an earlier step fails it returns an error with
\* the cause and no id; the upload is not tried again.
C9_PersistOutcome ==
    /\ Persisted =>
           /\ out.pc = "done"
           /\ Len(puts) = 1
           /\ Uploaded
           /\ out.ret.id = out.id
    /\ (out.pc = "done" /\ ~Uploaded /\ out.ret.kind # "panic") =>
           /\ out.ret.call = "persist"
           /\ out.ret.kind = "err"
           /\ out.ret.err # ""
           /\ out.ret.id = ""
    /\ out.pc = "done" => Len(puts) <= 1

\* C9 witness: the Put of a two-byte body failed and persist returned the error
C9_Witness ==
    /\ out.pc = "done"
    /\ Len(puts) = 1 /\ Len(puts[1].body) = 2
    /\ ~Uploaded
    /\ out.ret = Err("persist", "failed to upload the content to S3")

\* the streaming reader is in Streaming (it has a body), else AwaitingResponse
InStreaming == ain.body.some

\* AwaitingResponse has neither body nor checksum; Streaming has a checksum
\* and a fetch future that has resolved
StreamStateShape ==
    /\ ain.pc = "open" /\ ain.get_object = "new"
           => ~InStreaming /\ ~ain.checksum.some
    /\ ~InStreaming => ~ain.checksum.some
    /\ InStreaming => ain.checksum.some /\ ain.get_object = "done"

\* a step enters Streaming exactly when a poll in AwaitingResponse saw the
\* fetch resolve successfully with a checksum
EntersStreaming ==
    (~InStreaming /\ InStreaming')
        <=> (~InStreaming /\ ain' # ain /\ ain'.polled.get_object = "ok"
                          /\ ain'.fault # "no_checksum")

\* once in Streaming the reader stays there, keeps its checksum, and its polls
\* (the steps that change the reader and leave it open) leave the fetch alone
StaysStreaming ==
    InStreaming =>
        /\ InStreaming'
        /\ ain'.checksum = ain.checksum
        /\ ain'.get_object = ain.get_object
        /\ (ain' # ain /\ ain'.pc = "open") => ain'.polled.get_object = "none"

\* C10: the state machine of the streaming reader is forward-only. It starts in
\* AwaitingResponse; its only transition is to Streaming, taken exactly when
\* the fetch resolves with a checksum; from Streaming it never goes back, never
\* polls the fetch again and never changes the stored checksum.
C10_ForwardOnly ==
    []StreamStateShape /\ [][EntersStreaming /\ StaysStreaming]_vars

\* C10 witness: in Streaming, after polls that delivered the two bytes of a body
C10_Witness ==
    /\ ain.pc = "open" /\ InStreaming
    /\ ain.polled.get_object = "none" /\ ain.polled.body = "ready"
    /\ Len(ain.delivered) = 2 /\ ain.eof

\* the digest accumulator of the streaming reader is the fold, from the initial
\* context, of the bytes its successful polls added to the caller's buffers,
\* which are a prefix of the body
StreamDigestOfDelivered ==
    /\ ain.digest = DigestUpdate(DigestNew, ain.delivered)
    /\ Len(ain.delivered) <= Len(ain.full)
    /\ ain.delivered = Take(ain.full, Len(ain.delivered))

\* a successful poll that returns n adds n bytes; one that adds nothing leaves
\* the digest as it was
PollAddsReturned ==
    (ain.pc = "open" /\ ain' # ain /\ ain'.ret.call = "poll_read"
                     /\ ain'.ret.kind = "ok")
        => /\ Len(ain'.delivered) = Len(ain.delivered) + ain'.ret.n
           /\ ain'.ret.n = 0 => ain'.digest = ain.digest

\* C11: streaming digest invariant. After any sequence of polls, with caller
\* buffers that may already hold bytes when a poll starts, the digest has
\* folded exactly the bytes the successful polls newly added, in order; a
\* successful poll that adds no byte leaves the digest unchanged.
C11_StreamingDigest ==
    []StreamDigestOfDelivered /\ [][PollAddsReturned]_vars

\* C11 witness: the byte 1 was added by a poll into a buffer that already held
\* one byte 0, after an earlier poll had delivered the first byte of the body
C11_Witness ==
    /\ ain.pc = "open"
    /\ ain.polled.body = "ready" /\ ain.polled.last_pos = 1
    /\ ain.ret = OkCount("poll_read", 1)
    /\ ain.delivered = << 0, 1 >>

\* a step that is a poll of the streaming reader returning not-ready or the
\* error of the body
QuietPoll ==
    /\ ain.pc = "open" /\ ain' # ain
    /\ \/ ain'.ret = Pending("poll_read")
       \/ ain'.ret = Err("poll_read", "body")

\* the call of this step saw the fetch resolve with a response
ObservedResponse == ain'.polled.get_object = "ok"

\* what the poll of this step returns is what the last operation it polled
\* returned
OutcomeUnmodified ==
    /\ ain'.polled.body = "pending" => ain'.ret = Pending("poll_read")
    /\ ain'.polled.body = "err" => ain'.ret = Err("poll_read", "body")
    /\ (ain'.polled.body = "none" /\ ain'.polled.get_object = "pending")
           => ain'.ret = Pending("poll_read")

\* C12 as stated: a poll that returns not-ready, in either state, or the error
\* of the body leaves the digest, the stored checksum and the state of the
\* reader unchanged and returns the underlying outcome unmodified.
C12_QuietPollsChangeNothing ==
    [][QuietPoll => /\ ain'.digest = ain.digest
                    /\ ain'.checksum = ain.checksum
                    /\ InStreaming' = InStreaming
                    /\ OutcomeUnmodified]_vars

\* C12 amended: a poll that returns not-ready or the error of the body leaves
\* the digest and the delivered bytes unchanged and returns the underlying
\* outcome unmodified; it leaves the stored checksum, the body and the state
\* unchanged unless the same call first saw the fetch resolve, in which case
\* it has stored the checksum and entered Streaming before it polled the body.
C12_QuietPollsAfterStart ==
    [][QuietPoll => /\ ain'.digest = ain.digest
                    /\ ain'.delivered = ain.delivered
                    /\ OutcomeUnmodified
                    /\ ~ObservedResponse =>
                           /\ ain'.checksum = ain.checksum
                           /\ ain'.body = ain.body
                    /\ ObservedResponse =>
                           /\ ~InStreaming /\ InStreaming'
                           /\ ain'.checksum.some
                           /\ ain'.body.rest = ain'.full]_vars

\* C12 witness: the poll that saw the response stored the checksum, entered
\* Streaming and returned the not-ready of the body
C12_Witness ==
    /\ ain.pc = "open"
    /\ ain.polled.get_object = "ok" /\ ain.polled.body = "pending"
    /\ ain.ret = Pending("poll_read")
    /\ InStreaming /\ ain.checksum.some
    /\ ain.digest = DigestNew

\* the cursor of the buffered reader is inside the body, and what the reader
\* has delivered and digested is the body up to the cursor
CursorInBody ==
    /\ fin.read_pos >= 0 /\ fin.read_pos <= Len(fin.body)
    /\ fin.delivered = Take(fin.body, fin.read_pos)
    /\ fin.digest = DigestUpdate(DigestNew, fin.delivered)

\* a read step with a buffer of Len(fin'.buf) bytes
ReadAdvances ==
    (fin.pc = "open" /\ fin' # fin /\ fin'.ret.call = "read")
        => LET n == fin'.ret.n
               chunk == SubSeq(fin.body, fin.read_pos + 1, fin.read_pos + n)
           IN /\ fin'.ret = OkCount("read", n)
              /\ n = Min(Len(fin'.buf), Len(fin.body) - fin.read_pos)
              /\ Take(fin'.buf, n) = chunk
              /\ fin'.read_pos = fin.read_pos + n
              /\ fin'.read_pos >= fin.read_pos
              /\ fin'.digest = DigestUpdate(fin.digest, chunk)
              /\ fin'.body = fin.body
              /\ fin.read_pos = Len(fin.body) => n = 0

\* C13: cursor of the buffered reader. Always 0 <= read_pos <= len(body); a
\* read into a buffer returns n = min(len(buf), len(body) - read_pos), copies
\* body[read_pos .. read_pos+n] into the buffer, advances read_pos by n, folds
\* those n bytes into the digest, and returns 0 at the end of the body.
C13_ReaderCursor ==
    []CursorInBody /\ [][ReadAdvances]_vars

\* C13 witness: a read into a two-byte buffer with one byte of the body left
\* returned 1 and left the cursor at the end of a two-byte body
C13_Witness ==
    /\ fin.pc = "open"
    /\ Len(fin.body) = 2 /\ fin.read_pos = 2
    /\ Len(fin.buf) = 2
    /\ fin.ret = OkCount("read", 1)

\* the buffered reader holds an object whose reported checksum is the digest
\* of its non-empty body, and verify was called with part of the body unread
BufferedPartial ==
    /\ fin.pc = "verified"
    /\ Len(fin.body) > 0
    /\ fin.checksum = base64_engine(Sha256(fin.body))
    /\ fin.read_pos < Len(fin.body)

\* the same for the streaming reader, in Streaming
StreamingPartial ==
    /\ ain.pc = "verified"
    /\ InStreaming
    /\ Len(ain.full) > 0
    /\ ain.checksum = Some(base64_engine(Sha256(ain.full)))
    /\ Len(ain.delivered) < Len(ain.full)

\* C14: verification after a partial read. For an object whose reported
\* checksum is the digest of its non-empty body, verify called after only a
\* strict prefix of the body was delivered (also no byte at all) returns a
\* verification failure, in both readers; verify may be called at any time.
C14_PartialReadVerification ==
    /\ BufferedPartial => fin.ret = VerificationFailure
    /\ StreamingPartial => ain.ret = VerificationFailure

\* C14 witness: verify failed in the buffered reader after one byte of two and
\* in the streaming reader after no byte of two
C14_Witness ==
    /\ BufferedPartial /\ Len(fin.body) = 2 /\ fin.read_pos = 1
    /\ StreamingPartial /\ Len(ain.full) = 2 /\ ain.delivered = << >>
    /\ fin.ret = VerificationFailure
    /\ ain.ret = VerificationFailure

\* a blocking call made from outside the runtime returns what the operation it
\* drove came to: persist an id exactly when the upload went through, open a
\* reader over the object the store keeps under the key
OutsideCallReturns ==
    /\ out.caller = "outside" =>
           /\ out.ret.kind # "panic"
           /\ out.pc = "done" =>
                  /\ out.ret.call = "persist"
                  /\ out.ret.kind \in {"ok", "err"}
                  /\ Persisted <=> Uploaded
    /\ fin.caller = "outside" =>
           /\ fin.ret.kind # "panic"
           /\ fin.pc = "none" => fin.ret.call = "open" /\ fin.ret.kind = "err"
           /\ fin.pc \in {"get_object", "collect"} => fin.ret = NoRet
           /\ fin.pc \in {"open", "verified"} =>
                  \E o \in store : /\ o.key = fin.key
                                   /\ o.body = fin.body
                                   /\ o.checksum_sha256 = Some(fin.checksum)

\* C15: execution bridge. A blocking call from a thread outside the runtime
\* returns the result of the operation once it completes; one from a worker
\* running inside the runtime never returns, and nothing at run time detects
\* it.
C15_BridgeDeadlocksInside ==
    /\ OutsideCallReturns
    /\ out.caller = "worker" =>
           /\ out.ret.kind # "panic"
           /\ out.pc = "done" => out.ret = Err("persist", "io")
    /\ fin.caller = "worker" => fin.pc = "get_object" /\ fin.ret = NoRet

\* the fetch of the streaming reader has resolved and left no body: a poll in
\* AwaitingResponse has returned an error
FailedStart == ain.pc = "open" /\ ain.get_object = "done" /\ ~InStreaming

\* C16: termination on a failed start. After a poll in AwaitingResponse has
\* returned an error (transport error, or response without checksum), every
\* later poll of the reader delivers no byte, does not poll the resolved fetch
\* again and issues no new fetch.
C16_TerminatedAfterFailedStart ==
    [][(FailedStart /\ ain' # ain /\ ain'.ret.call = "poll_read")
          => /\ ain'.delivered = ain.delivered
             /\ ain'.polled.get_object = "none"
             /\ ain'.get_object = "done"
             /\ ain'.ret.kind # "panic"]_vars

\* a poll returns not-ready only when the operation it polled last did
PendingFromLastPolled ==
    ain.ret = Pending("poll_read") => WakeRegistered

\* the poll that sees the response with a checksum polls the body in the same
\* call
ResponseGoesOnToBody ==
    (ain.polled.get_object = "ok" /\ InStreaming) => ain.polled.body # "none"

\* the caller has seen the end of the body or an error, or has stopped polling
PollingEnded ==
    \/ ain.eof
    \/ ain.ret.call = "poll_read" /\ ain.ret.kind \in {"err", "panic"}
    \/ ain.pc # "open"

\* C17: no lost wake-up. A poll returns not-ready only if the last operation
\* it polled in that call (the fetch, or the body) returned not-ready; the poll
\* that sees a response with a checksum goes on to poll the body in the same
\* call; so when the fetch resolves and the body ends, a caller that polls
\* again on every wake-up sees the end of the body or an error.
C17_NoLostWakeup ==
    /\ [](PendingFromLastPolled /\ ResponseGoesOnToBody)
    /\ (ain.pc = "open") ~> PollingEnded

\* C17 witness: the poll that saw the response went on to the body and
\* returned its first byte
C17_Witness ==
    /\ ain.pc = "open"
    /\ ain.polled.get_object = "ok" /\ ain.polled.body = "ready"
    /\ ain.ret = OkCount("poll_read", 1)
    /\ Len(ain.delivered) = 1

\* C18: verify before Streaming. verify on a streaming reader that never got to
\* Streaming (never polled, or polled only with not-ready or error results)
\* returns a verification failure for every object, also the empty one, since
\* no checksum was captured; it never returns success there.
C18_VerifyBeforeStreaming ==
    (ain.pc = "verified" /\ ~InStreaming)
        => /\ ain.ret = VerificationFailure
           /\ ~ain.checksum.some
           /\ ain.delivered = << >>

\* C18 witness: verify failed on a reader that was never polled, opened on the
\* empty object the store keeps with the checksum of no bytes
C18_Witness ==
    /\ ain.pc = "verified" /\ ~InStreaming
    /\ ain.get_object = "new"
    /\ \E o \in store : /\ o.key = ain.key
                        /\ o.body = << >>
                        /\ o.checksum_sha256
                               = Some(base64_engine(DigestFinish(ain.digest)))
    /\ ain.ret = VerificationFailure

====
